---- MODULE Spec2Model ----
(***************************************************************************)
(* A model of braindrop's local mirror of a Raindrop account:              *)
(*   - Raindrops (app/data/raindrops.py): an ordered group of raindrops    *)
(*     with an identity -> position index, a chain of filters and a        *)
(*     reference to the unfiltered source group (Spec);                    *)
(*   - LocalData.download (app/data/local.py): the refresh of the mirror   *)
(*     from the server (SpecDownload);                                     *)
(*   - LocalData.save, load and in_collection (SpecPersist, Spec);         *)
(*   - Main.load_data and Main.maybe_redownload (app/screens/main.py):     *)
(*     the decision at the start between a download and the local copy     *)
(*     (SpecSync);                                                         *)
(*   - Navigation._add_children_for (app/widgets/navigation.py): the       *)
(*     enumeration of the collections under a collection (SpecTree);       *)
(*   - Main's commands that add, edit and delete a raindrop (SpecEdit);    *)
(*   - Tag, Raindrops.tags, the orders of the list of tags and the strings *)
(*     of tags (SpecTags);                                                 *)
(*   - the start with load_data in its thread and the command Redownload   *)
(*     (SpecSession, and SpecSessionFair with the scheduling).             *)
(***************************************************************************)
EXTENDS Integers, Sequences, FiniteSets, TLC

VARIABLES
    views,      \* the Raindrops objects that exist, by object id
    active,     \* Main.active_collection: the object id of the group on display
    last,       \* the last call made on a Raindrops object and what it returned
    data,       \* LocalData: _user, _all, _trash, _collections, _last_downloaded
    dl,         \* the download() coroutine: where it is and what it has fetched
    pre,        \* LocalData as it was when the running download() was called
    now,        \* the clock read by mark_downloaded
    sync,       \* Main: how far the start-up (load_data, maybe_redownload) has got
    disk,       \* the file of local_data_file(): what save() wrote last
    walk,       \* Navigation._add_children_for: the calls that are running
    calc        \* the last call of a function of tags: its arguments and its result

vars == <<views, active, last, data, dl, pre, now, sync, disk, walk, calc>>

(***************************************************************************)
(* Bounds.                                                                 *)
(***************************************************************************)
\* the longest list of raindrops a group is set to; pushes grow it by one more
MaxLen == 1
\* the number of Raindrops objects that exist at a time
MaxViews == 3
\* the longest chain of filters that is built
MaxChain == 2
\* the most raindrops the server holds in a collection
MaxFetch == 1
\* the number of times download() is called
MaxDownloads == 2
\* the number of times the program is started
MaxRuns == 2
\* the latest time of last update the server reports
MaxServerTime == 5
\* the depth of recursion at which Python raises RecursionError
MaxDepth == 4
\* the most raindrops in a group whose tags are counted
MaxTagged == 2
\* the longest string of tags that is parsed
MaxChars == 5

(***************************************************************************)
(* Tags (raindrop/tag.py).  A tag keeps the string it was made from and    *)
(* compares by its case-folded form.                                       *)
(***************************************************************************)
TagStrings == {"a", "A", "b", "B"}

\* str.casefold on the letters that occur
casefold(s) ==
    CASE s = "A" -> "a"
      [] s = "B" -> "b"
      [] s = "X" -> "x"
      [] s = "Y" -> "y"
      [] OTHER -> s

\* A plausible slip: compare the strings as they are.
TagEqExact(t, u) == t = u

TagEq(t, u) == casefold(t) = casefold(u)

(***************************************************************************)
(* Raindrops (raindrop/raindrop.py): the identity, the tags and the text.  *)
(* D1b is an edited version of D1: same identity, other content, moved to  *)
(* the unsorted raindrops.                                                 *)
(***************************************************************************)
\* SpecialCollection: the identities the server gives to its own collections
ALL == 0
UNSORTED == -1
TRASH == -99

D1  == [identity |-> 1, tags |-> <<"a">>,      title |-> <<"x", "y">>, collection |-> 10]
D1b == [identity |-> 1, tags |-> <<"A", "b">>, title |-> <<"Y">>,      collection |-> UNSORTED]
D2  == [identity |-> 2, tags |-> <<"B">>,      title |-> <<"x">>,      collection |-> 10]

Drops == {D1, D1b, D2}

RECURSIVE SeqsUpTo(_, _)
SeqsUpTo(S, n) ==
    IF n = 0 THEN {<<>>}
    ELSE LET shorter == SeqsUpTo(S, n - 1)
         IN  shorter \cup {Append(s, x) : s \in {t \in shorter : Len(t) = n - 1}, x \in S}

DropLists == SeqsUpTo(Drops, MaxLen)

\* Raindrop.is_tagged: does the raindrop carry the tag?
is_tagged(raindrop, tag) ==
    \E i \in 1..Len(raindrop.tags) : TagEq(raindrop.tags[i], tag)

\* Raindrop.__contains__: case-insensitive search for a text in the raindrop.
IsInfix(needle, hay) ==
    \E k \in 0..(Len(hay) - Len(needle)) :
        \A i \in 1..Len(needle) : casefold(hay[k + i]) = casefold(needle[i])

contains_text(raindrop, text) == IsInfix(text, raindrop.title)

(***************************************************************************)
(* Filters (Raindrops.Tagged, Raindrops.Containing).  `raindrop == filter` *)
(* ends in the filter's __eq__.                                            *)
(***************************************************************************)
Tagged(tag) == [kind |-> "Tagged", tag |-> tag, text |-> <<>>]

Containing(text) == [kind |-> "Containing", tag |-> "", text |-> text]

SearchTexts == {<<"Y">>}

FilterTags == {"a", "B"}

FilterEq(f, raindrop) ==
    CASE f.kind = "Tagged" -> is_tagged(raindrop, f.tag)
      [] f.kind = "Containing" -> contains_text(raindrop, f.text)
      [] OTHER -> FALSE

(***************************************************************************)
(* The Raindrops class.  Positions are counted from 0, as in the code.     *)
(***************************************************************************)
NoSource == 0

IdsOf(raindrops) == {raindrops[i].identity : i \in 1..Len(raindrops)}

\* the position enumerate() reaches last for an identity wins
reindex(raindrops) ==
    [id \in IdsOf(raindrops) |->
        (CHOOSE p \in 1..Len(raindrops) :
            /\ raindrops[p].identity = id
            /\ \A q \in 1..Len(raindrops) : raindrops[q].identity = id => q <= p) - 1]

\* Raindrops.__init__ of the object `self`; sourceLen is len(source).
\* `source or self`: a source that is None, or that holds nothing, is falsy.
SourceOrSelf(self, source, sourceLen) ==
    IF source = NoSource \/ sourceLen = 0 THEN self ELSE source

NewRaindrops(self, title, raindrops, filters, source, sourceLen, root_collection) ==
    [title           |-> title,
     raindrops       |-> raindrops,
     index           |-> reindex(raindrops),
     filters         |-> filters,
     source          |-> SourceOrSelf(self, source, sourceLen),
     root_collection |-> root_collection]

\* A plausible slip: the list is replaced and the index is left as it was.
set_to_stale(view, raindrops) == [view EXCEPT !.raindrops = raindrops]

set_to(view, raindrops) ==
    [view EXCEPT !.raindrops = raindrops, !.index = reindex(raindrops)]

\* A plausible slip: the raindrop is appended instead of inserted at 0.
push_back(view, raindrop) ==
    LET new == Append(view.raindrops, raindrop)
    IN  [view EXCEPT !.raindrops = new, !.index = reindex(new)]

\* A plausible slip: the raindrop is inserted and the index is left as it was.
push_stale(view, raindrop) ==
    [view EXCEPT !.raindrops = <<raindrop>> \o view.raindrops]

push(view, raindrop) ==
    LET new == <<raindrop>> \o view.raindrops
    IN  [view EXCEPT !.raindrops = new, !.index = reindex(new)]

\* the identity is a key of the index (else the subscript raises KeyError)
known(view, raindrop) == raindrop.identity \in DOMAIN view.index

\* A plausible slip: the first position is overwritten, not the indexed one.
replace_first(view, raindrop) ==
    [view EXCEPT !.raindrops[1] = raindrop]

replace(view, raindrop) ==
    [view EXCEPT !.raindrops[view.index[raindrop.identity] + 1] = raindrop]

DelAt(s, p) == SubSeq(s, 1, p - 1) \o SubSeq(s, p + 1, Len(s))

\* A plausible slip: the raindrop is deleted and the index is left as it was.
remove_stale(view, raindrop) ==
    [view EXCEPT !.raindrops = DelAt(view.raindrops, view.index[raindrop.identity] + 1)]

remove(view, raindrop) ==
    LET new == DelAt(view.raindrops, view.index[raindrop.identity] + 1)
    IN  [view EXCEPT !.raindrops = new, !.index = reindex(new)]

is_filtered(view) == view.filters # <<>>

unfiltered(view) == view.source

contains(view, raindrop) == raindrop.identity \in DOMAIN view.index

\* Raindrops.description: the tags it lists after "tagged", in the order it lists them
described_tags(view) ==
    LET links == SelectSeq(view.filters, LAMBDA f : f.kind = "Tagged")
    IN  [i \in 1..Len(links) |-> links[i].tag]

\* len() of the source of the view with object id `id`
SourceLen(heap, view, id) ==
    IF view.source = id THEN Len(view.raindrops)
    ELSE Len(heap[view.source].raindrops)

Matching(raindrops, f) == SelectSeq(raindrops, LAMBDA r : FilterEq(f, r))

\* A plausible slip: the new view starts a chain of its own.
filter_forgets(heap, view, id, self, f) ==
    NewRaindrops(self, view.title, Matching(view.raindrops, f), <<f>>,
                 view.source, SourceLen(heap, view, id), view.root_collection)

\* A plausible slip: the new filter is put in front of the chain.
filter_prepends(heap, view, id, self, f) ==
    NewRaindrops(self, view.title, Matching(view.raindrops, f), <<f>> \o view.filters,
                 view.source, SourceLen(heap, view, id), view.root_collection)

\* Raindrops.filter on the view with object id `id`; `self` is the new object
filter(heap, view, id, self, f) ==
    NewRaindrops(self, view.title, Matching(view.raindrops, f), Append(view.filters, f),
                 view.source, SourceLen(heap, view, id), view.root_collection)

RECURSIVE Replay(_, _, _, _, _)
\* the loop of refilter: each filter of the chain is applied to the result so far
Replay(heap, view, id, self, chain) ==
    IF chain = <<>> THEN [view |-> view, id |-> id]
    ELSE Replay(heap, filter(heap, view, id, self, Head(chain)), self, self, Tail(chain))

\* Raindrops.refilter of heap[v], given the object `given` (NoSource for None)
tagged(heap, view, id, self, tag) == filter(heap, view, id, self, Tagged(tag))

containing(heap, view, id, self, text) == filter(heap, view, id, self, Containing(text))

refilter(heap, v, given, self) ==
    LET start == unfiltered(heap[IF given = NoSource THEN v ELSE given])
    IN  Replay(heap, heap[start], start, self, heap[v].filters)

(***************************************************************************)
(* LocalData (app/data/local.py) as it is created.                         *)
(***************************************************************************)
NoUser == "none"

\* LocalData.__init__; last_downloaded 0 stands for None
NoData ==
    [user |-> NoUser, all |-> <<>>, trash |-> <<>>, collections |-> <<>>,
     last_downloaded |-> 0]

Idle == [pc |-> "idle", calls |-> 0, raindrops |-> <<>>, root |-> <<>>]

\* Main._user as Main.__init__ leaves it; last_update 0 stands for None
NoMainUser == [name |-> NoUser, last_update |-> 0]

\* local_data_file() does not exist
NoFile == <<>>

\* Main before on_mount has run
Unmounted ==
    [pc |-> "mount", user |-> NoMainUser, answer |-> "none", decision |-> "none",
     posted |-> 0, errors |-> 0, shown |-> FALSE, runs |-> 1, commanded |-> FALSE,
     file |-> NoFile]

\* no function of tags has been called yet
NoCalc == [fn |-> "none", args |-> <<>>, result |-> <<>>]

\* no call of _add_children_for is running
NoWalk == [pc |-> "idle", collections |-> <<>>, stack |-> <<>>, out |-> <<>>]

(***************************************************************************)
(* The calls on Raindrops objects.  LocalData's group "All" is object 1;   *)
(* the screen holds the active collection, which is object 1 or a group    *)
(* derived from it.  An object that nothing refers to any more is freed,   *)
(* and its id is used again.                                               *)
(***************************************************************************)
NoCall ==
    [op |-> "none", tgt |-> 0, drop |-> <<>>, flt |-> <<>>, res |-> 0,
     raised |-> FALSE, before |-> <<>>, pushed |-> <<>>,
     answer |-> "", notified |-> ""]

Call(op, tgt) == [NoCall EXCEPT !.op = op, !.tgt = tgt, !.res = tgt]

Root == 1

ObjectIds == 1..MaxViews

Free ==
    [title |-> "", raindrops |-> <<>>, index |-> <<>>, filters |-> <<>>,
     source |-> NoSource, root_collection |-> ""]

Exists(heap, id) == heap[id].source # NoSource

HasRoom(heap) == \E id \in ObjectIds : ~Exists(heap, id)

NewId(heap) == CHOOSE id \in ObjectIds : ~Exists(heap, id) /\ \A o \in ObjectIds : o < id => Exists(heap, o)

\* what is referred to while the screen shows the object `shown`: LocalData's
\* group, the group on display and the source it refers to
Collect(heap, shown) ==
    [id \in ObjectIds |-> IF id \in {Root, shown, heap[shown].source} THEN heap[id] ELSE Free]

SetTo(v, raindrops) ==
    /\ views' = [views EXCEPT ![v] = set_to(@, raindrops)]
    /\ last' = Call("set_to", v)
    /\ UNCHANGED <<active, data, dl, pre, now, sync, disk, walk, calc>>

Push(v, raindrop) ==
    /\ Len(views[v].raindrops) <= MaxLen
    /\ views' = [views EXCEPT ![v] = push(@, raindrop)]
    /\ last' = [Call("push", v) EXCEPT !.drop = <<raindrop>>, !.before = <<views[v]>>]
    /\ UNCHANGED <<active, data, dl, pre, now, sync, disk, walk, calc>>

Replace(v, raindrop) ==
    /\ IF known(views[v], raindrop)
       THEN /\ views' = [views EXCEPT ![v] = replace(@, raindrop)]
            /\ last' = [Call("replace", v) EXCEPT !.drop = <<raindrop>>]
       ELSE /\ views' = views
            /\ last' = [Call("replace", v) EXCEPT !.drop = <<raindrop>>, !.raised = TRUE]
    /\ UNCHANGED <<active, data, dl, pre, now, sync, disk, walk, calc>>

\* `pushed` holds the view as it was before the push that this remove undoes
Remove(v, raindrop) ==
    /\ IF known(views[v], raindrop)
       THEN /\ views' = [views EXCEPT ![v] = remove(@, raindrop)]
            /\ last' = [Call("remove", v) EXCEPT
                            !.drop = <<raindrop>>,
                            !.pushed = IF /\ last.op = "push"
                                          /\ last.tgt = v
                                          /\ last.drop = <<raindrop>>
                                       THEN last.before ELSE <<>>]
       ELSE /\ views' = views
            /\ last' = [Call("remove", v) EXCEPT !.drop = <<raindrop>>, !.raised = TRUE]
    /\ UNCHANGED <<active, data, dl, pre, now, sync, disk, walk, calc>>

\* Main.command_show_tagged: active_collection = active_collection.tagged(tag)
ShowTagged(tag) ==
    /\ HasRoom(views)
    /\ Len(views[active].filters) < MaxChain
    /\ LET self == NewId(views)
           new  == tagged(views, views[active], active, self, tag)
       IN  /\ views' = Collect([views EXCEPT ![self] = new], self)
           /\ active' = self
           /\ last' = [Call("filter", active) EXCEPT !.flt = <<Tagged(tag)>>, !.res = self]
    /\ UNCHANGED <<data, dl, pre, now, sync, disk, walk, calc>>

\* Main.action_search_command: active_collection = active_collection.containing(text)
Search(text) ==
    /\ HasRoom(views)
    /\ Len(views[active].filters) < MaxChain
    /\ LET self == NewId(views)
           new  == containing(views, views[active], active, self, text)
       IN  /\ views' = Collect([views EXCEPT ![self] = new], self)
           /\ active' = self
           /\ last' = [Call("filter", active) EXCEPT !.flt = <<Containing(text)>>, !.res = self]
    /\ UNCHANGED <<data, dl, pre, now, sync, disk, walk, calc>>

\* Main.action_clear_filters_command: active_collection = active_collection.unfiltered
ClearFilters ==
    /\ active' = unfiltered(views[active])
    /\ views' = Collect(views, active')
    /\ last' = [Call("unfiltered", active) EXCEPT !.res = active']
    /\ UNCHANGED <<data, dl, pre, now, sync, disk, walk, calc>>

\* Main._locally_refresh: the active collection is rebuilt with its filters
Refilter ==
    /\ HasRoom(views)
    /\ Len(views[unfiltered(views[active])].filters) + Len(views[active].filters) <= MaxChain
    /\ LET self == NewId(views)
           r    == refilter(views, active, NoSource, self)
       IN  /\ views' = Collect([views EXCEPT ![self] = IF r.id = self THEN r.view ELSE @], r.id)
           /\ active' = r.id
           /\ last' = [Call("refilter", active) EXCEPT !.res = r.id]
    /\ UNCHANGED <<data, dl, pre, now, sync, disk, walk, calc>>

(***************************************************************************)
(* The state as the screen is created: LocalData holds nothing, its group   *)
(* "All" is empty and is the only Raindrops object.  Specification of the   *)
(* Raindrops objects: everything is derived from that group.               *)
(***************************************************************************)
RootCollection == "ALL"

Init ==
    /\ views = [id \in ObjectIds |->
                   IF id = Root
                   THEN NewRaindrops(Root, "All", <<>>, <<>>, NoSource, 0, RootCollection)
                   ELSE Free]
    /\ active = Root
    /\ last = NoCall
    /\ data = NoData
    /\ dl = Idle
    /\ pre = NoData
    /\ now = 1
    /\ sync = Unmounted
    /\ disk = NoFile
    /\ walk = NoWalk
    /\ calc = NoCalc

NextViews ==
    \/ \E s \in DropLists : SetTo(Root, s)
    \/ \E d \in Drops : Push(Root, d)
    \/ \E d \in Drops : Replace(Root, d)
    \/ \E d \in Drops : Remove(Root, d)
    \/ \E t \in FilterTags : ShowTagged(t)
    \/ \E s \in SearchTexts : Search(s)
    \/ ClearFilters
    \/ Refilter

Spec == Init /\ [][NextViews]_vars

(***************************************************************************)
(* LocalData (app/data/local.py) and what the server answers.              *)
(***************************************************************************)
Users == {"u1", "u2"}

\* raindrops as the server sends them: the identity and the collection's "$id"
Raw1 == [_id |-> 1, collection |-> 10]
Raw2 == [_id |-> 2, collection |-> UNSORTED]

RemoteRaws == {Raw1, Raw2}

\* Raindrop.from_json: the payload is kept as `raw`
Raindrop_from_json(json) ==
    [raw |-> json, identity |-> json._id, collection |-> json.collection]

\* the pages of raindrops the server may return
Pages ==
    SeqsUpTo({Raindrop_from_json(raw) : raw \in RemoteRaws}, MaxFetch) \ {<<>>}

\* collections as the server sends them: <<>> stands for a missing "parent"
CollRaw10 == [_id |-> 10, parent |-> <<>>]
CollRaw11 == [_id |-> 11, parent |-> <<10>>]

NoParent == 0

\* Collection.from_json: the payload is kept as `raw`
Collection_from_json(json) ==
    [raw |-> json, identity |-> json._id,
     parent |-> IF json.parent = <<>> THEN NoParent ELSE json.parent[1]]

Coll10 == Collection_from_json(CollRaw10)
Coll11 == Collection_from_json(CollRaw11)

RootAnswers == {<<>>, <<Coll10>>}

ChildrenAnswers == {<<>>, <<Coll11>>}

\* {collection.identity: collection for collection in collections}
ByIdentity(collections) ==
    [id \in {collections[i].identity : i \in 1..Len(collections)} |->
        collections[CHOOSE i \in 1..Len(collections) :
            /\ collections[i].identity = id
            /\ \A j \in 1..Len(collections) : collections[j].identity = id => j <= i]]

\* A plausible slip: the download is marked when it begins.
DownloadMarked(user) ==
    /\ dl.pc \in {"idle", "done", "failed"}
    /\ dl.calls < MaxDownloads
    /\ pre' = data
    /\ data' = [data EXCEPT !.user = user, !.last_downloaded = now]
    /\ dl' = [pc |-> "all", calls |-> dl.calls + 1, raindrops |-> <<>>, root |-> <<>>]
    /\ UNCHANGED <<views, active, last, now, sync, disk, walk, calc>>

\* download(user) is called: the user is stored before anything is fetched
Download(user) ==
    /\ dl.pc \in {"idle", "done", "failed"}
    /\ dl.calls < MaxDownloads
    /\ pre' = data
    /\ data' = [data EXCEPT !.user = user]
    /\ dl' = [pc |-> "all", calls |-> dl.calls + 1, raindrops |-> <<>>, root |-> <<>>]
    /\ UNCHANGED <<views, active, last, now, sync, disk, walk, calc>>

\* API.raindrops: one request of the loop returns a page that holds raindrops
FetchPage(page) ==
    /\ dl.pc \in {"all", "trash"}
    /\ Len(dl.raindrops) + Len(page) <= MaxFetch
    /\ dl' = [dl EXCEPT !.raindrops = @ \o page]
    /\ UNCHANGED <<views, active, last, data, pre, now, sync, disk, walk, calc>>

\* API.raindrops returns at the first page that holds nothing:
\* self._all.set_to(...), then self._trash.set_to(...)
FetchEnds ==
    /\ dl.pc \in {"all", "trash"}
    /\ IF dl.pc = "all"
       THEN /\ data' = [data EXCEPT !.all = dl.raindrops]
            /\ dl' = [dl EXCEPT !.pc = "trash", !.raindrops = <<>>]
       ELSE /\ data' = [data EXCEPT !.trash = dl.raindrops]
            /\ dl' = [dl EXCEPT !.pc = "root", !.raindrops = <<>>]
    /\ UNCHANGED <<views, active, last, pre, now, sync, disk, walk, calc>>

\* API.collections("all"): the request for the root collections
FetchRoot(answer) ==
    /\ dl.pc = "root"
    /\ dl' = [dl EXCEPT !.pc = "children", !.root = answer]
    /\ UNCHANGED <<views, active, last, data, pre, now, sync, disk, walk, calc>>

\* LocalData.mark_downloaded
mark_downloaded(d, time) == [d EXCEPT !.last_downloaded = time]

\* the request for the children answers: the collections are stored and the
\* download is marked
FetchChildren(answer) ==
    /\ dl.pc = "children"
    /\ data' = mark_downloaded([data EXCEPT !.collections = ByIdentity(dl.root \o answer)], now)
    /\ now' = now + 1
    /\ dl' = [dl EXCEPT !.pc = "done", !.root = <<>>]
    /\ UNCHANGED <<views, active, last, pre, sync, disk, walk, calc>>

\* API._call raises RequestError: download() ends with that exception
FetchFails ==
    /\ dl.pc \in {"all", "trash", "root", "children"}
    /\ dl' = [dl EXCEPT !.pc = "failed", !.raindrops = <<>>, !.root = <<>>]
    /\ UNCHANGED <<views, active, last, data, pre, now, sync, disk, walk, calc>>

NextDownload ==
    \/ \E u \in Users : Download(u)
    \/ \E page \in Pages : FetchPage(page)
    \/ FetchEnds
    \/ \E answer \in RootAnswers : FetchRoot(answer)
    \/ \E answer \in ChildrenAnswers : FetchChildren(answer)
    \/ FetchFails

SpecDownload == Init /\ [][NextDownload]_vars

(***************************************************************************)
(* LocalData.save and LocalData.load.  The file holds a JSON object; a     *)
(* JSON null is <<>> and any other JSON value v is <<v>> where null may    *)
(* stand; the keys of a JSON object are strings.                           *)
(***************************************************************************)
\* the times the clock shows
Clock == 1..(MaxDownloads + 1)

\* datetime.isoformat
isoformat(t) == ToString(t)

\* get_time(data, "last_downloaded"): the time the text stands for, None for null
get_time(json) ==
    IF json.last_downloaded = <<>> THEN 0
    ELSE CHOOSE t \in Clock : isoformat(t) = json.last_downloaded[1]

\* User.raw: the payload the user was made from
User_raw(user) == [_id |-> user]

\* User.from_json: identity = data["_id"]
User_from_json(json) == json._id

\* json.dumps writes the keys of a dict as strings; int(k) reads them back
Keys(collections) == {ToString(id) : id \in DOMAIN collections}

int(k, ids) == CHOOSE id \in ids : ToString(id) = k

\* LocalData._local_json
local_json(d) ==
    [last_downloaded |-> IF d.last_downloaded = 0 THEN <<>>
                         ELSE <<isoformat(d.last_downloaded)>>,
     user        |-> IF d.user = NoUser THEN <<>> ELSE <<User_raw(d.user)>>,
     all         |-> [i \in 1..Len(d.all) |-> d.all[i].raw],
     trash       |-> [i \in 1..Len(d.trash) |-> d.trash[i].raw],
     collections |-> [k \in Keys(d.collections) |->
                         d.collections[int(k, DOMAIN d.collections)].raw]]

\* LocalData.save: what the file holds afterwards
save(d) == <<local_json(d)>>

\* the identities collections may have
CollectionIds == {CollRaw10._id, CollRaw11._id}

\* A plausible slip: a file that does not exist reads as one written before
\* anything was downloaded.
load_missing_as_empty(file, d) ==
    [data |-> [d EXCEPT !.last_downloaded = 0], raised |-> TRUE]

\* LocalData.load into the LocalData d: the LocalData afterwards, and whether
\* load raised.  User.from_json subscripts what "user" holds, so a null there
\* raises TypeError after the time has been assigned.
load(file, d) ==
    IF file = NoFile THEN [data |-> d, raised |-> FALSE]
    ELSE LET json == file[1]
             time == get_time(json)
         IN  IF json.user = <<>>
             THEN [data |-> [d EXCEPT !.last_downloaded = time], raised |-> TRUE]
             ELSE [data |->
                      [last_downloaded |-> time,
                       user        |-> User_from_json(json.user[1]),
                       all         |-> [i \in 1..Len(json.all) |->
                                           Raindrop_from_json(json.all[i])],
                       trash       |-> [i \in 1..Len(json.trash) |->
                                           Raindrop_from_json(json.trash[i])],
                       collections |-> [id \in {int(k, CollectionIds) : k \in DOMAIN json.collections} |->
                                           Collection_from_json(json.collections[ToString(id)])]],
                   raised |-> FALSE]

\* save() is called on the LocalData, between its other operations
Save ==
    /\ dl.pc \in {"idle", "done", "failed"}
    /\ disk = NoFile
    /\ disk' = save(data)
    /\ last' = [Call("save", 0) EXCEPT !.before = <<data>>]
    /\ UNCHANGED <<views, active, data, dl, pre, now, sync, walk, calc>>

\* the program is started again: a new LocalData loads the file
LoadFresh ==
    /\ dl.pc \in {"idle", "done", "failed"}
    /\ last.op \in {"none", "save"}
    /\ LET loaded == load(disk, NoData)
       IN  /\ data' = loaded.data
           /\ last' = [Call("load", 0) EXCEPT !.raised = loaded.raised,
                                              !.before = last.before]
    /\ dl' = [Idle EXCEPT !.calls = dl.calls]
    /\ UNCHANGED <<views, active, pre, now, sync, disk, walk, calc>>

\* one run of the program that downloads and saves, and the start of the next
NextPersist ==
    \/ disk = NoFile /\ last.op = "none" /\ NextDownload
    \/ Save
    \/ LoadFresh

SpecPersist == Init /\ [][NextPersist]_vars

(***************************************************************************)
(* Main (app/screens/main.py): the start of the program.  on_mount calls   *)
(* load_data, which loads the file and calls maybe_redownload; that asks   *)
(* the server for the user and decides between a download and the local    *)
(* copy.                                                                   *)
(***************************************************************************)
\* Main._redownload_wiggle_room, in seconds
redownload_wiggle_room == 2

\* the times of last update the server reports for the user; 0 stands for None
ServerTimes == 0..MaxServerTime

\* A plausible slip: a difference of exactly the wiggle room counts as newer.
server_is_newer_or_equal(last_downloaded, last_update) ==
    /\ last_update # 0
    /\ last_update - last_downloaded >= redownload_wiggle_room

\* the elif of maybe_redownload: the server's data is newer than the local copy
server_is_newer(last_downloaded, last_update) ==
    /\ last_update # 0
    /\ last_update - last_downloaded > redownload_wiggle_room

\* A plausible slip: the server's time decides also when nothing was downloaded.
needs_download_by_time(last_downloaded, last_update) ==
    server_is_newer(last_downloaded, last_update)

\* the if and the elif of maybe_redownload: Redownload is to be posted
needs_download(last_downloaded, last_update) ==
    \/ last_downloaded = 0
    \/ server_is_newer(last_downloaded, last_update)

\* self.post_message(Redownload())
post_Redownload(s) ==
    [s EXCEPT !.pc = "posted", !.decision = "refresh", !.posted = @ + 1]

\* A plausible slip: the local copy is shown and Redownload is posted as well.
populate_display_and_post(s) ==
    [s EXCEPT !.pc = "posted", !.decision = "uptodate", !.shown = TRUE, !.posted = @ + 1]

\* self.populate_display(); return
populate_display(s) == [s EXCEPT !.pc = "shown", !.decision = "uptodate", !.shown = TRUE]

\* A plausible slip: the error is reported and the check goes on to the download.
give_up_and_post(s) ==
    [s EXCEPT !.pc = "posted", !.decision = "refresh", !.errors = @ + 1, !.posted = @ + 1]

\* self.notify(..., severity="error"); return
give_up(s) == [s EXCEPT !.pc = "failed", !.decision = "failed", !.errors = @ + 1]

\* Main.load_data: the file is loaded into the LocalData, then maybe_redownload
\* is called; an exception of load() ends the worker and the program with it
LoadData ==
    /\ sync.pc = "mount"
    /\ LET loaded == load(disk, data)
       IN  /\ data' = loaded.data
           /\ sync' = [sync EXCEPT !.pc = IF loaded.raised THEN "crashed" ELSE "user"]
    /\ UNCHANGED <<views, active, last, dl, pre, now, disk, walk, calc>>

\* maybe_redownload, API.user() returns the user
UserAnswers(name, last_update) ==
    /\ sync.pc = "user"
    /\ LET s == [sync EXCEPT !.user = [name |-> name, last_update |-> last_update],
                             !.answer = "user"]
       IN  IF needs_download(data.last_downloaded, last_update)
           THEN sync' = post_Redownload(s) /\ active' = active
           ELSE sync' = populate_display(s) /\ active' = Root
    /\ UNCHANGED <<views, last, data, dl, pre, now, disk, walk, calc>>

\* maybe_redownload, API.user() returns None
UserNone ==
    /\ sync.pc = "user"
    /\ sync' = give_up([sync EXCEPT !.user = NoMainUser, !.answer = "nouser"])
    /\ UNCHANGED <<views, active, last, data, dl, pre, now, disk, walk, calc>>

\* maybe_redownload, API.user() raises API.Error
UserFails ==
    /\ sync.pc = "user"
    /\ sync' = give_up([sync EXCEPT !.answer = "error"])
    /\ UNCHANGED <<views, active, last, data, dl, pre, now, disk, walk, calc>>

\* A plausible slip: the download does not wait for the user.
DownloadDataAtOnce ==
    /\ sync.pc \in {"user", "posted"}
    /\ dl.pc = "idle"
    /\ Download(sync.user.name)

\* action_redownload_command, on the message Redownload: download_data pushes
\* the screen Downloading, which calls download() for Main._user
DownloadData ==
    /\ sync.pc = "posted"
    /\ dl.pc = "idle"
    /\ Download(sync.user.name)

\* the screen Downloading is done: it saves what was downloaded, or reports
\* the error of download(); download_data goes on to populate_display
Downloaded ==
    /\ sync.pc = "posted"
    /\ dl.pc \in {"done", "failed"}
    /\ IF dl.pc = "done"
       THEN /\ disk' = save(data)
            /\ sync' = [sync EXCEPT !.pc = "shown", !.shown = TRUE]
       ELSE /\ disk' = disk
            /\ sync' = [sync EXCEPT !.pc = "shown", !.shown = TRUE, !.errors = @ + 1]
    /\ active' = Root
    /\ dl' = [Idle EXCEPT !.calls = dl.calls]
    /\ UNCHANGED <<views, last, data, pre, now, walk, calc>>

\* the program is left and started again: Main and its LocalData are new
Restart ==
    /\ sync.pc \in {"shown", "failed"}
    /\ sync.runs < MaxRuns
    /\ sync' = [Unmounted EXCEPT !.runs = sync.runs + 1]
    /\ data' = NoData
    /\ pre' = NoData
    /\ active' = Root
    /\ UNCHANGED <<views, last, dl, now, disk, walk, calc>>

NextSync ==
    \/ LoadData
    \/ \E u \in Users, t \in ServerTimes : UserAnswers(u, t)
    \/ UserNone
    \/ UserFails
    \/ DownloadData
    \/ \E page \in Pages : FetchPage(page)
    \/ FetchEnds
    \/ \E answer \in RootAnswers : FetchRoot(answer)
    \/ \E answer \in ChildrenAnswers : FetchChildren(answer)
    \/ FetchFails
    \/ Downloaded
    \/ Restart

SpecSync == Init /\ [][NextSync]_vars

(***************************************************************************)
(* The start with its workers apart and with the command Redownload of the *)
(* user.  load_data is a thread (@work(thread=True)): load() runs beside   *)
(* the event loop, which handles the keys of the user meanwhile;           *)
(* maybe_redownload and download_data are workers of the event loop and    *)
(* give way at every await.  One download() runs at a time here: while the *)
(* screen Downloading of a command is up, the message Redownload waits.    *)
(***************************************************************************)
\* on_mount: load_data is started, load() begins in its thread; it returns at
\* once when there is no file and reads the file when there is one
LoadBegins ==
    /\ sync.pc = "mount"
    /\ sync' = [sync EXCEPT !.pc = IF disk = NoFile THEN "user" ELSE "loading",
                            !.file = disk]
    /\ UNCHANGED <<views, active, last, data, dl, pre, now, disk, walk, calc>>

\* load() assigns what it has read, and returns or raises, in the thread;
\* maybe_redownload is called from it
LoadEnds ==
    /\ sync.pc = "loading"
    /\ LET loaded == load(sync.file, data)
       IN  /\ data' = loaded.data
           /\ sync' = [sync EXCEPT !.pc = IF loaded.raised THEN "crashed" ELSE "user"]
    /\ UNCHANGED <<views, active, last, dl, pre, now, disk, walk, calc>>

\* the user gives the command Redownload while Main is the screen on top:
\* action_redownload_command starts the worker download_data.  Of the calls
\* of download() that are followed, one is kept for the check that is not
\* through yet.
RedownloadCommand ==
    /\ sync.pc \in {"loading", "user", "posted", "shown", "failed"}
    /\ ~sync.commanded
    /\ dl.pc = "idle"
    /\ dl.calls + (IF sync.pc \in {"loading", "user", "posted"} THEN 1 ELSE 0) < MaxDownloads
    /\ sync' = [sync EXCEPT !.commanded = TRUE]
    /\ UNCHANGED <<views, active, last, data, dl, pre, now, disk, walk, calc>>

\* download_data of the command: Downloading calls download() for Main._user
CommandedDownload ==
    /\ sync.commanded
    /\ dl.pc = "idle"
    /\ Download(sync.user.name)

\* download_data of the message Redownload
PostedDownload ==
    /\ ~sync.commanded
    /\ DownloadData

\* A plausible slip: download_data ends without populate_display.
DownloadEndsUnshown ==
    /\ dl.pc \in {"done", "failed"}
    /\ disk' = IF dl.pc = "done" THEN save(data) ELSE disk
    /\ sync' = [sync EXCEPT !.commanded = FALSE]
    /\ dl' = [Idle EXCEPT !.calls = dl.calls]
    /\ UNCHANGED <<views, active, last, data, pre, now, walk, calc>>

\* the screen Downloading is done: it saves what was downloaded, or reports
\* the error of download(); download_data goes on to populate_display
DownloadEnds ==
    /\ dl.pc \in {"done", "failed"}
    /\ disk' = IF dl.pc = "done" THEN save(data) ELSE disk
    /\ sync' = [sync EXCEPT !.pc = IF sync.commanded THEN @ ELSE "shown",
                            !.commanded = FALSE,
                            !.shown = TRUE,
                            !.errors = IF dl.pc = "done" THEN @ ELSE @ + 1]
    /\ active' = Root
    /\ dl' = [Idle EXCEPT !.calls = dl.calls]
    /\ UNCHANGED <<views, last, data, pre, now, walk, calc>>

\* API.user() resolves
UserResolves ==
    \/ \E u \in Users, t \in ServerTimes : UserAnswers(u, t)
    \/ UserNone
    \/ UserFails

\* a request of download() resolves
FetchResolves ==
    \/ \E page \in Pages : FetchPage(page)
    \/ FetchEnds
    \/ \E answer \in RootAnswers : FetchRoot(answer)
    \/ \E answer \in ChildrenAnswers : FetchChildren(answer)
    \/ FetchFails

NextSession ==
    \/ LoadBegins
    \/ LoadEnds
    \/ RedownloadCommand
    \/ UserResolves
    \/ CommandedDownload
    \/ PostedDownload
    \/ FetchResolves
    \/ DownloadEnds

\* the file an earlier run of the program has saved
SavedData ==
    [user |-> "u1", all |-> <<Raindrop_from_json(Raw1)>>, trash |-> <<>>,
     collections |-> ByIdentity(<<Coll10>>), last_downloaded |-> 1]

\* the program is started for the first time, or after a run that has saved
InitSession ==
    /\ views = [id \in ObjectIds |->
                   IF id = Root
                   THEN NewRaindrops(Root, "All", <<>>, <<>>, NoSource, 0, RootCollection)
                   ELSE Free]
    /\ active = Root
    /\ last = NoCall
    /\ data = NoData
    /\ dl = Idle
    /\ pre = NoData
    /\ now = 2
    /\ sync = Unmounted
    /\ disk \in {NoFile, save(SavedData)}
    /\ walk = NoWalk
    /\ calc = NoCalc

SpecSession == InitSession /\ [][NextSession]_vars

\* the event loop runs every worker that can go on, the thread of load_data
\* runs, and every request resolves; the user is free
SpecSessionFair ==
    /\ SpecSession
    /\ WF_vars(LoadBegins)
    /\ WF_vars(LoadEnds)
    /\ WF_vars(UserResolves)
    /\ WF_vars(CommandedDownload)
    /\ WF_vars(PostedDownload)
    /\ WF_vars(FetchResolves)
    /\ WF_vars(DownloadEnds)

(***************************************************************************)
(* LocalData.in_collection, for the groups `all` and `trash` of a          *)
(* LocalData.  `self` is the id of the object that is made, if one is.     *)
(***************************************************************************)
\* the collections in_collection is asked for: title and identity
AskedCollections ==
    {[title |-> "All", identity |-> ALL],
     [title |-> "Unsorted", identity |-> UNSORTED],
     [title |-> "Trash", identity |-> TRASH],
     [title |-> "ten", identity |-> 10],
     [title |-> "eleven", identity |-> 11]}

InCollection(raindrops, identity) ==
    SelectSeq(raindrops, LAMBDA r : r.collection = identity)

\* A plausible slip: raindrops without a collection are taken for unsorted.
unsorted_is_zero(all, self) ==
    NewRaindrops(self, "Unsorted", InCollection(all.raindrops, 0),
                 <<>>, NoSource, 0, RootCollection)

\* LocalData.unsorted
unsorted(all, self) ==
    NewRaindrops(self, "Unsorted", InCollection(all.raindrops, UNSORTED),
                 <<>>, NoSource, 0, RootCollection)

\* LocalData.in_collection
in_collection(all, trash, self, collection) ==
    CASE collection.identity = ALL -> all
      [] collection.identity = UNSORTED -> unsorted(all, self)
      [] collection.identity = TRASH -> trash
      [] OTHER -> NewRaindrops(self, collection.title,
                               InCollection(all.raindrops, collection.identity),
                               <<>>, NoSource, 0, RootCollection)

\* LocalData._trash: Raindrops("Trash"), set to the trashed raindrops
TrashOf(self, raindrops) ==
    set_to(NewRaindrops(self, "Trash", <<>>, <<>>, NoSource, 0, RootCollection), raindrops)

(***************************************************************************)
(* The collections under a collection: Navigation._add_children_for, and   *)
(* in the same way RaindropInput._selectable_child_collections_of and      *)
(* Groups._add_children_for.  Each call loops over all the collections and *)
(* calls itself for every collection whose parent is the one it was called *)
(* for.  A frame of the stack is a call: the parent, the position of its   *)
(* loop and its indent.                                                    *)
(***************************************************************************)
TreeIds == {10, 11, 12}

\* the collections a LocalData may hold, as LocalData.collections lists them:
\* each with a parent among the collections, or none
Forests ==
    {[i \in 1..3 |-> [identity |-> 9 + i, parent |-> parents[i]]] :
        parents \in [1..3 -> TreeIds \cup {NoParent}]}

\* A plausible slip: the indent is passed on as it is.
FrameSameIndent(parent, indent) == [parent |-> parent, i |-> 1, indent |-> indent]

Frame(parent, indent) == [parent |-> parent, i |-> 1, indent |-> indent + 1]

Top == walk.stack[Len(walk.stack)]

\* the stack with the loop of the running call moved on by one
Advanced == [walk.stack EXCEPT ![Len(walk.stack)].i = @ + 1]

\* _main_navigation: the children of a collection of a group are asked for
StartWalk(collections, parent) ==
    /\ walk.pc \in {"idle", "done", "RecursionError"}
    /\ walk' = [pc |-> "walking", collections |-> collections,
                stack |-> <<Frame(parent, 0)>>, out |-> <<>>]
    /\ UNCHANGED <<views, active, last, data, dl, pre, now, sync, disk, calc>>

\* the loop is at a collection of another parent
WalkSkip ==
    /\ walk.pc = "walking"
    /\ Top.i <= Len(walk.collections)
    /\ walk.collections[Top.i].parent # Top.parent
    /\ walk' = [walk EXCEPT !.stack = Advanced]
    /\ UNCHANGED <<views, active, last, data, dl, pre, now, sync, disk, calc>>

\* the loop is at a child: it is added and _add_children_for is called for it;
\* at the limit of the recursion that call raises RecursionError
WalkChild ==
    /\ walk.pc = "walking"
    /\ Top.i <= Len(walk.collections)
    /\ walk.collections[Top.i].parent = Top.parent
    /\ LET child == walk.collections[Top.i]
           out   == Append(walk.out, [identity |-> child.identity, indent |-> Top.indent])
       IN  IF Len(walk.stack) < MaxDepth
           THEN walk' = [walk EXCEPT !.out = out,
                                     !.stack = Append(Advanced, Frame(child.identity, Top.indent))]
           ELSE walk' = [walk EXCEPT !.out = out, !.pc = "RecursionError"]
    /\ UNCHANGED <<views, active, last, data, dl, pre, now, sync, disk, calc>>

\* the loop of the running call is over: the call returns
WalkReturn ==
    /\ walk.pc = "walking"
    /\ Top.i > Len(walk.collections)
    /\ walk' = [walk EXCEPT !.stack = SubSeq(@, 1, Len(@) - 1),
                            !.pc = IF Len(walk.stack) = 1 THEN "done" ELSE "walking"]
    /\ UNCHANGED <<views, active, last, data, dl, pre, now, sync, disk, calc>>

NextTree ==
    \/ \E collections \in Forests, parent \in TreeIds : StartWalk(collections, parent)
    \/ WalkSkip
    \/ WalkChild
    \/ WalkReturn

SpecTree == Init /\ [][NextTree]_vars

(***************************************************************************)
(* Main (app/screens/main.py): a raindrop is added, edited or deleted.     *)
(* The change goes to the server first; what the server answers decides    *)
(* whether the LocalData and the group on display are changed.             *)
(***************************************************************************)
\* what the server does with a change: the request raises API.Error, the
\* answer carries no confirmation (None, or False for a delete), or it confirms
ServerAnswers == {"error", "unconfirmed", "ok"}

\* A plausible slip: an answer without a raindrop is taken for a saved one.
was_not_saved_never(answer) == FALSE

\* Main._was_not_saved: the server returned no raindrop
was_not_saved(answer) == answer = "unconfirmed"

\* the notification a change ends with
Notification(answer, confirmation) ==
    CASE answer = "error" -> "error"
      [] was_not_saved(answer) -> "warning"
      [] OTHER -> confirmation

\* the change is made locally: it is not when the request raised or the answer
\* did not confirm
Confirmed(answer) == answer # "error" /\ ~was_not_saved(answer)

\* LocalData.rebuild: the filters of the group on display are applied again to
\* the collection the group came from, which is "All" for every group here
rebuild(heap, shown, self) == refilter(heap, shown, Root, self)

\* Main._locally_refresh with the groups as local_save left them: the group on
\* display is rebuilt
LocallyRefreshed(heap, op, raindrop, answer, confirmation) ==
    LET self == NewId(heap)
        r    == rebuild(heap, active, self)
    IN  /\ views' = Collect([heap EXCEPT ![self] = IF r.id = self THEN r.view ELSE @], r.id)
        /\ active' = r.id
        /\ last' = [Call(op, Root) EXCEPT !.drop = <<raindrop>>, !.res = r.id,
                                         !.answer = answer,
                                         !.notified = Notification(answer, confirmation)]

\* the change is not made: the user is told, nothing else happens
NotSaved(op, raindrop, answer) ==
    /\ last' = [Call(op, Root) EXCEPT !.drop = <<raindrop>>, !.answer = answer,
                                     !.notified = Notification(answer, "")]
    /\ UNCHANGED <<views, active, data, calc>>

\* download_data: the group "All" is set to what was downloaded and is shown
Populate(raindrops) ==
    /\ views' = Collect([views EXCEPT ![Root] = set_to(@, raindrops)], Root)
    /\ active' = Root
    /\ last' = Call("set_to", Root)
    /\ UNCHANGED <<data, dl, pre, now, sync, disk, walk, calc>>

\* Main.action_add_raindrop_command; LocalData.add pushes the raindrop the
\* server returned onto "All"
AddRaindrop(raindrop, answer) ==
    /\ Len(views[Root].raindrops) <= MaxLen
    /\ HasRoom(views)
    /\ IF Confirmed(answer)
       THEN /\ LocallyRefreshed([views EXCEPT ![Root] = push(@, raindrop)],
                                "add", raindrop, answer, "Saved")
            /\ data' = data
       ELSE NotSaved("add", raindrop, answer)
    /\ UNCHANGED <<dl, pre, now, sync, disk, walk, calc>>

\* Main.action_edit_raindrop_command for a raindrop of the group on display;
\* LocalData.update replaces it in "All" by the raindrop the server returned
EditRaindrop(raindrop, answer) ==
    /\ contains(views[active], raindrop)
    /\ known(views[Root], raindrop)
    /\ HasRoom(views)
    /\ IF Confirmed(answer)
       THEN /\ LocallyRefreshed([views EXCEPT ![Root] = replace(@, raindrop)],
                                "edit", raindrop, answer, "Saved")
            /\ data' = data
       ELSE NotSaved("edit", raindrop, answer)
    /\ UNCHANGED <<dl, pre, now, sync, disk, walk, calc>>

\* Main.action_delete_raindrop_command for a raindrop of the group on display;
\* LocalData.delete takes it out of "All" and puts it in the trash
DeleteRaindrop(raindrop, answer) ==
    /\ \E i \in 1..Len(views[active].raindrops) : views[active].raindrops[i] = raindrop
    /\ known(views[Root], raindrop)
    /\ HasRoom(views)
    /\ Len(data.trash) < MaxLen + 1
    /\ IF Confirmed(answer)
       THEN /\ LocallyRefreshed([views EXCEPT ![Root] = remove(@, raindrop)],
                                "delete", raindrop, answer, "Deleted")
            /\ data' = [data EXCEPT !.trash = <<raindrop>> \o @]
       ELSE NotSaved("delete", raindrop, answer)
    /\ UNCHANGED <<dl, pre, now, sync, disk, walk, calc>>

NextEdit ==
    \/ \E s \in DropLists : Populate(s)
    \/ \E t \in FilterTags : ShowTagged(t)
    \/ ClearFilters
    \/ \E d \in Drops, answer \in ServerAnswers : AddRaindrop(d, answer)
    \/ \E d \in Drops, answer \in ServerAnswers : EditRaindrop(d, answer)
    \/ \E d \in Drops, answer \in ServerAnswers : DeleteRaindrop(d, answer)

SpecEdit == Init /\ [][NextEdit]_vars

(***************************************************************************)
(* Functions of tags: Tag.__eq__, __gt__ and __hash__ (raindrop/tag.py),   *)
(* Raindrops.tags (app/data/raindrops.py), the two orders of the list of   *)
(* tags (Navigation._by_name, _by_count) and the strings of tags           *)
(* (Raindrop.string_to_tags, tags_to_string, string_to_raw_tags).          *)
(***************************************************************************)
\* ord(): the code point of a one-letter string
ord(s) ==
    CASE s = "A" -> 65
      [] s = "B" -> 66
      [] s = "a" -> 97
      [] s = "b" -> 98
      [] OTHER -> 0

\* Tag.__eq__ with a Tag: `self == str(value)`
Tag_eq(t, u) == TagEq(t, u)

\* Tag.__eq__ with a str
Tag_eq_str(t, s) == casefold(t) = casefold(s)

\* `string == tag`: str.__eq__ returns NotImplemented for a Tag and Python
\* turns to the Tag's __eq__ with the operands swapped
str_eq_Tag(s, t) == Tag_eq_str(t, s)

\* Tag.__gt__
Tag_gt(t, u) == ord(casefold(t)) > ord(casefold(u))

\* __lt__ as functools.total_ordering derives it from __gt__ and __eq__
Tag_lt(t, u) == ~(Tag_gt(t, u) \/ Tag_eq(t, u))

\* hash() of a str: a function of the string
hash(s) == ord(s) % 7

\* A plausible slip: hash the string as it was given.
Tag_hash_exact(t) == hash(t)

\* Tag.__hash__
Tag_hash(t) == hash(casefold(t))


\* set(tags), in the order the tags were added: a tag is added unless a tag
\* with the same hash that equals it is there already
RECURSIVE set_update(_)
set_update(tags) ==
    IF tags = <<>> THEN <<>>
    ELSE LET front == set_update(SubSeq(tags, 1, Len(tags) - 1))
             tag   == tags[Len(tags)]
         IN  IF \E i \in 1..Len(front) :
                    Tag_hash(front[i]) = Tag_hash(tag) /\ Tag_eq(front[i], tag)
             THEN front
             ELSE Append(front, tag)

\* A plausible slip: every tag of the raindrop is taken, `tags.extend(raindrop.tags)`.
py_set_keeps_all(tags) == tags

\* set(raindrop.tags)
py_set(tags) == set_update(tags)

\* the orders in which a set can be iterated
Orderings(s) ==
    {[i \in 1..Len(s) |-> s[p[i]]] : p \in Permutations(1..Len(s))}

\* the lists `tags` that Raindrops.tags can build for the raindrops of a group,
\* given as the list of their lists of tags
RECURSIVE Extended(_)
Extended(group) ==
    IF group = <<>> THEN {<<>>}
    ELSE {front \o more :
            front \in Extended(SubSeq(group, 1, Len(group) - 1)),
            more \in Orderings(py_set(group[Len(group)]))}

\* Counter(tags).items() as a list of TagData: a tag for each distinct tag, in
\* the order of the first occurrences, with the number of occurrences
RECURSIVE Counter(_)
Counter(tags) ==
    IF tags = <<>> THEN <<>>
    ELSE LET front == Counter(SubSeq(tags, 1, Len(tags) - 1))
             tag   == tags[Len(tags)]
         IN  IF \E i \in 1..Len(front) : Tag_eq(front[i].tag, tag)
             THEN [i \in 1..Len(front) |->
                      IF Tag_eq(front[i].tag, tag)
                      THEN [front[i] EXCEPT !.count = @ + 1]
                      ELSE front[i]]
             ELSE Append(front, [tag |-> tag, count |-> 1])

\* the comparison sorted() makes of two TagData: by TagData.the_tag() with
\* Tag.__lt__, or by TagData.the_count() with reverse=True
Before(key, x, y) ==
    IF key = "the_tag" THEN Tag_lt(x.tag, y.tag) ELSE x.count > y.count

\* sorted(): a stable sort, each item goes before the first item it comes
\* before by the key and after the items it does not
RECURSIVE sorted(_, _)
sorted(items, key) ==
    IF items = <<>> THEN <<>>
    ELSE LET front == sorted(SubSeq(items, 1, Len(items) - 1), key)
             item  == items[Len(items)]
             later == {i \in 1..Len(front) : Before(key, item, front[i])}
             at    == IF later = {} THEN Len(front) + 1
                      ELSE CHOOSE i \in later : \A j \in later : i <= j
         IN  SubSeq(front, 1, at - 1) \o <<item>> \o SubSeq(front, at, Len(front))

\* Navigation._by_name: sorted(tags, key=TagData.the_tag())
by_name(tags) == sorted(tags, "the_tag")

\* Navigation._by_count: sorted(tags, key=TagData.the_count(), reverse=True);
\* the items with the same count keep the order they came in
by_count(tags) == sorted(tags, "the_count")

\* the lists of tags of a raindrop; a group is a list of up to MaxTagged of them
TagLists ==
    {<<>>, <<"a">>, <<"A">>, <<"b">>, <<"B">>, <<"a", "A">>, <<"A", "a">>, <<"a", "a">>,
     <<"a", "b">>, <<"b", "A">>, <<"B", "b", "a">>, <<"a", "A", "a">>}

\* Raindrops.tags of a group
TagsOf(group) ==
    /\ calc = NoCalc
    /\ \E tags \in Extended(group) :
          calc' = [fn |-> "tags", args |-> group, result |-> Counter(tags)]
    /\ UNCHANGED <<views, active, last, data, dl, pre, now, sync, disk, walk>>

\* Navigation._show_tags_for: the tags of a group in one of the two orders
ShowTagsFor(tags_by_count) ==
    /\ calc.fn = "tags"
    /\ calc' = [fn |-> IF tags_by_count THEN "by_count" ELSE "by_name",
                args |-> calc.result,
                result |-> IF tags_by_count THEN by_count(calc.result)
                           ELSE by_name(calc.result)]
    /\ UNCHANGED <<views, active, last, data, dl, pre, now, sync, disk, walk>>

\* two tags are compared, with each other and each with the string of the
\* other, and hashed
CompareTags(t, u) ==
    /\ calc = NoCalc
    /\ calc' = [fn |-> "eq", args |-> <<t, u>>,
                result |-> [tags |-> Tag_eq(t, u), tag_str |-> Tag_eq_str(t, u),
                            str_tag |-> str_eq_Tag(t, u),
                            hashes |-> <<Tag_hash(t), Tag_hash(u)>>]]
    /\ UNCHANGED <<views, active, last, data, dl, pre, now, sync, disk, walk>>

\* a set is built from tags
SetOfTags(tags) ==
    /\ calc = NoCalc
    /\ calc' = [fn |-> "set", args |-> tags, result |-> py_set(tags)]
    /\ UNCHANGED <<views, active, last, data, dl, pre, now, sync, disk, walk>>

(***************************************************************************)
(* Strings of tags, as the user types them in RaindropInput.  A string is  *)
(* the list of its characters and a tag the list of its letters.  A        *)
(* behaviour of SpecTags is one call with its arguments, and for the tags  *)
(* of a group the display of the result.                                   *)
(***************************************************************************)
\* Raindrop.TAG_STRING_SEPARATOR
TAG_STRING_SEPARATOR == ","

\* the characters of the strings that are parsed
Chars == {"a", "A", "b", TAG_STRING_SEPARATOR, " "}

\* str.casefold
str_casefold(s) == [i \in 1..Len(s) |-> casefold(s[i])]

\* str.split(TAG_STRING_SEPARATOR)
RECURSIVE split(_)
split(s) ==
    LET at == {i \in 1..Len(s) : s[i] = TAG_STRING_SEPARATOR}
    IN  IF at = {} THEN <<s>>
        ELSE LET i == CHOOSE i \in at : \A j \in at : i <= j
             IN  <<SubSeq(s, 1, i - 1)>> \o split(SubSeq(s, i + 1, Len(s)))

\* str.strip
RECURSIVE strip(_)
strip(s) ==
    IF s = <<>> THEN s
    ELSE IF s[1] = " " THEN strip(Tail(s))
    ELSE IF s[Len(s)] = " " THEN strip(SubSeq(s, 1, Len(s) - 1))
    ELSE s

\* Raindrop.string_to_raw_tags: the entries of the string that are not empty
\* once stripped
string_to_raw_tags(s) ==
    LET entries  == split(s)
        stripped == [i \in 1..Len(entries) |-> strip(entries[i])]
    IN  SelectSeq(stripped, LAMBDA tag : tag # <<>>)

\* the tags without the ones that equal an earlier one
RECURSIVE squished(_)
squished(tags) ==
    IF tags = <<>> THEN <<>>
    ELSE LET front == squished(SubSeq(tags, 1, Len(tags) - 1))
             tag   == tags[Len(tags)]
         IN  IF \E i \in 1..Len(front) : str_casefold(front[i]) = str_casefold(tag)
             THEN front
             ELSE Append(front, tag)

\* A plausible slip: the tags are not squished.
string_to_tags_raw(s) == string_to_raw_tags(s)

\* Raindrop.string_to_tags
string_to_tags(s) == squished(string_to_raw_tags(s))

\* ", ".join
RECURSIVE join(_)
join(strings) ==
    IF strings = <<>> THEN <<>>
    ELSE IF Len(strings) = 1 THEN strings[1]
    ELSE strings[1] \o <<TAG_STRING_SEPARATOR, " ">> \o join(Tail(strings))

\* Raindrop.tags_to_string
tags_to_string(tags) == join(squished(tags))

\* RaindropInput.action_save reads the tags the user typed; the same string
\* as raw tags, and the raw tags as a string again
ParseTags(s) ==
    /\ calc = NoCalc
    /\ calc' = [fn |-> "string_to_tags", args |-> s,
                result |-> [tags |-> string_to_tags(s),
                            raw |-> string_to_raw_tags(s),
                            string |-> tags_to_string(string_to_raw_tags(s))]]
    /\ UNCHANGED <<views, active, last, data, dl, pre, now, sync, disk, walk>>

NextTags ==
    \/ \E group \in SeqsUpTo(TagLists, MaxTagged) : TagsOf(group)
    \/ \E tags_by_count \in BOOLEAN : ShowTagsFor(tags_by_count)
    \/ \E t, u \in TagStrings : CompareTags(t, u)
    \/ \E tags \in TagLists : SetOfTags(tags)
    \/ \E s \in SeqsUpTo(Chars, MaxChars) : ParseTags(s)

SpecTags == Init /\ [][NextTags]_vars

\* C1 as stated: when a fetch of download() has failed, user, all, trash and
\* collections are what they were before download() was called.
C1_FailedDownloadCommitsNothing ==
    dl.pc = "failed"
    => /\ data.user = pre.user
       /\ data.all = pre.all
       /\ data.trash = pre.trash
       /\ data.collections = pre.collections

(***************************************************************************)
(* Properties of the Raindrops objects.                                    *)
(***************************************************************************)
Existing == {id \in ObjectIds : Exists(views, id)}

\* two strings that differ in the case of their letters at most
SameIgnoringCase(s, t) ==
    \/ s = t
    \/ {s, t} \in {{"a", "A"}, {"b", "B"}, {"x", "X"}, {"y", "Y"}}

CarriesTag(raindrop, tag) ==
    \E i \in 1..Len(raindrop.tags) : SameIgnoringCase(raindrop.tags[i], tag)

HoldsText(raindrop, text) ==
    \E k \in 0..(Len(raindrop.title) - Len(text)) :
        \A i \in 1..Len(text) : SameIgnoringCase(raindrop.title[k + i], text[i])

Satisfies(raindrop, f) ==
    IF f.kind = "Tagged" THEN CarriesTag(raindrop, f.tag) ELSE HoldsText(raindrop, f.text)

Restricted(raindrops, chain) ==
    SelectSeq(raindrops, LAMBDA r : \A i \in 1..Len(chain) : Satisfies(r, chain[i]))

\* C2 as stated: in every Raindrops object, after any calls of push, replace,
\* remove and set_to, index[sequence[p].identity] = p for every position p, and
\* the index has no key but the identities of the raindrops in the sequence.
C2_IndexReflectsSequence ==
    \A id \in Existing :
        LET v == views[id]
        IN  /\ DOMAIN v.index = IdsOf(v.raindrops)
            /\ \A p \in 1..Len(v.raindrops) : v.index[v.raindrops[p].identity] = p - 1

\* C2 as amended: the index has exactly the identities of the sequence as its
\* keys, and index[sequence[p].identity] = p for every position p whose identity
\* does not occur again at a later position (so for every position when the
\* identities are pairwise distinct).
C2_IndexReflectsLastPositions ==
    \A id \in Existing :
        LET v == views[id]
        IN  /\ DOMAIN v.index = IdsOf(v.raindrops)
            /\ \A p \in 1..Len(v.raindrops) :
                   (\A q \in (p + 1)..Len(v.raindrops) :
                        v.raindrops[q].identity # v.raindrops[p].identity)
                   => v.index[v.raindrops[p].identity] = p - 1

C2_Witness ==
    /\ last.op = "replace"
    /\ ~last.raised
    /\ Len(views[Root].raindrops) = 2
    /\ views[Root].raindrops[1].identity # views[Root].raindrops[2].identity

\* C3: after any calls of push, replace and remove, `in` is true of every
\* raindrop whose identity is held in the sequence of the Raindrops object.
C3_HeldIsContained ==
    \A id \in Existing :
        \A d \in Drops :
            d.identity \in IdsOf(views[id].raindrops) => contains(views[id], d)

C3_Witness ==
    /\ last.op = "push"
    /\ Len(views[Root].raindrops) = 2
    /\ contains(views[Root], D2)
    /\ ~contains(views[Root], D1)

\* C4 as stated: refilter() on a view derived from the root by the chain f1..fn
\* returns a view that holds exactly the root's current raindrops that satisfy
\* every fi, in the root's order, and whose chain is f1..fn.
C4_RefilterReplaysOnRoot ==
    [][last'.op = "refilter"
       => /\ views'[last'.res].raindrops
                = Restricted(views[Root].raindrops, views[active].filters)
          /\ views'[last'.res].filters = views[active].filters]_vars

\* C5 as stated: unfiltered of every view derived from the root is the root
\* itself, and is_filtered is true exactly when the chain is not empty.
C5_UnfilteredIsRoot ==
    \A id \in Existing :
        /\ unfiltered(views[id]) = Root
        /\ is_filtered(views[id]) <=> Len(views[id].filters) > 0

\* C6: filter(p) leaves the receiver (and every other object) as it was and
\* returns a new view with the receiver's title and root collection, the
\* receiver's chain followed by p, and the receiver's raindrops that satisfy p,
\* in the receiver's order.
C6_FilterDerivesNewView ==
    [][last'.op = "filter"
       => LET recv == views[active]
              new  == views'[last'.res]
              p    == last'.flt[1]
          IN  /\ last'.tgt = active
              /\ last'.res # active
              /\ \A id \in ObjectIds \ {last'.res} :
                     Exists(views', id) => views'[id] = views[id]
              /\ views'[Root] = views[Root]
              /\ new.title = recv.title
              /\ new.root_collection = recv.root_collection
              /\ new.filters = Append(recv.filters, p)
              /\ new.raindrops = Restricted(recv.raindrops, <<p>>)]_vars

C6_Witness ==
    /\ last.op = "filter"
    /\ last.tgt = Root
    /\ Len(views[Root].raindrops) = 2
    /\ Len(views[last.res].raindrops) = 1
    /\ views[last.res].source = Root

\* an object id that no object has, for the views made on the way
Scratch == MaxViews + 1

\* C7: for every view and tags x, y the raindrops of view.tagged(x).tagged(y)
\* are the raindrops of the view that carry both x and y (compared without
\* regard to case), in the view's order.
C7_TaggedTwiceIsBoth ==
    \A id \in Existing :
        \A x \in TagStrings, y \in TagStrings :
            LET once  == tagged(views, views[id], id, Scratch, x)
                twice == tagged(views, once, Scratch, Scratch, y)
            IN  twice.raindrops
                    = SelectSeq(views[id].raindrops,
                                LAMBDA r : CarriesTag(r, x) /\ CarriesTag(r, y))

C7_Witness ==
    /\ last.op = "filter"
    /\ views[active].filters = <<Tagged("a"), Tagged("B")>>
    /\ views[active].raindrops = <<D1b>>
    /\ Len(views[Root].raindrops) = 2

C9_PushRemoveRestores ==
    (last.op = "remove" /\ last.pushed # <<>>)
    => /\ views[last.tgt].raindrops = last.pushed[1].raindrops
       /\ views[last.tgt].index = last.pushed[1].index

\* C9 as amended: push(b) followed by remove(b) leaves the sequence and the
\* index of the view as they were before the push, for every raindrop b whose
\* identity the view did not hold before the push.
C9_PushRemoveRestoresAbsent ==
    (/\ last.op = "remove"
     /\ last.pushed # <<>>
     /\ ~contains(last.pushed[1], last.drop[1]))
    => /\ views[last.tgt].raindrops = last.pushed[1].raindrops
       /\ views[last.tgt].index = last.pushed[1].index

C9_Witness ==
    /\ last.op = "remove"
    /\ last.pushed # <<>>
    /\ ~contains(last.pushed[1], last.drop[1])
    /\ Len(last.pushed[1].raindrops) = 1
    /\ views[last.tgt] = last.pushed[1]

\* C10: replace(b) on a view that holds b's identity puts b at the position
\* the index gives for that identity, where a raindrop of that identity was,
\* and changes neither the length, nor any other position, nor the index.
C10_ReplaceInPlace ==
    [][(last'.op = "replace" /\ ~last'.raised)
       => LET old == views[last'.tgt]
              new == views'[last'.tgt]
              b   == last'.drop[1]
              p   == old.index[b.identity] + 1
          IN  /\ old.raindrops[p].identity = b.identity
              /\ new.raindrops[p] = b
              /\ Len(new.raindrops) = Len(old.raindrops)
              /\ \A q \in 1..Len(old.raindrops) :
                     q # p => new.raindrops[q] = old.raindrops[q]
              /\ new.index = old.index
              /\ \A id \in ObjectIds \ {last'.tgt} : views'[id] = views[id]]_vars

C10_Witness ==
    /\ last.op = "replace"
    /\ ~last.raised
    /\ views[Root].raindrops = <<D2, D1b>>
    /\ last.drop = <<D1b>>

\* C11: replace(b) and remove(b) on a view that does not hold b's identity
\* fail (the subscript of the index raises KeyError, Python's not-found error)
\* and leave the sequence and the index of the view, and every other object,
\* as they were.
C11_AbsentIdentityRaises ==
    [][(/\ last'.op \in {"replace", "remove"}
        /\ last'.drop[1].identity \notin IdsOf(views[last'.tgt].raindrops))
       => /\ last'.raised
          /\ views'[last'.tgt].raindrops = views[last'.tgt].raindrops
          /\ views'[last'.tgt].index = views[last'.tgt].index
          /\ views' = views]_vars

C11_Witness ==
    /\ last.op = "remove"
    /\ last.raised
    /\ last.drop = <<D1b>>
    /\ views[Root].raindrops = <<D2>>

\* C12: push(b) puts b at position 0, the length grows by one, and every
\* raindrop held before is one position later, in the order it was in.
C12_PushAtFront ==
    [][last'.op = "push"
       => LET old == views[last'.tgt].raindrops
              new == views'[last'.tgt].raindrops
          IN  /\ new[1] = last'.drop[1]
              /\ Len(new) = Len(old) + 1
              /\ \A p \in 1..Len(old) : new[p + 1] = old[p]]_vars

C12_Witness ==
    /\ last.op = "push"
    /\ last.drop = <<D2>>
    /\ views[Root].raindrops = <<D2, D1>>

\* C17 as stated: save() followed by load() on a new LocalData gives the
\* LocalData that was saved (user, all, trash, collections, last_downloaded,
\* with the payloads as they were), whatever it held, also no user and no time.
C17_SaveLoadRoundTrip ==
    (last.op = "load" /\ last.before # <<>>)
    => /\ ~last.raised
       /\ data = last.before[1]

\* C18: load() when no file exists raises nothing and leaves a new LocalData
\* as it was made: no user, no time, and all, trash and collections empty.
C18_LoadWithoutFile ==
    [][(last'.op = "load" /\ disk = NoFile)
       => /\ ~last'.raised
          /\ data' = NoData
          /\ disk' = NoFile]_vars

C18_Witness ==
    /\ last.op = "load"
    /\ disk = NoFile
    /\ dl.calls > 0
    /\ data = NoData

(***************************************************************************)
(* Properties of the start of the program.                                 *)
(***************************************************************************)
\* the step in which maybe_redownload runs from the answer of API.user() on
Checked == sync.pc = "user" /\ sync'.pc # "user"

\* C13 as stated: with no time of the last download a download is decided and
\* started, and the user is asked of the server only when there is such a time.
C13_NoTimeDownloadsUnasked ==
    (sync.pc \in {"posted", "shown", "failed"} /\ data.last_downloaded = 0)
    => /\ sync.decision = "refresh"
       /\ sync.answer = "none"

\* C13 as amended: the user is asked of the server first in every case; with
\* no time of the last download, a user that the server returned makes the
\* check decide on a download and post Redownload whatever time of last update
\* the user has, and a failed request or no user makes it report the error and
\* post nothing.
C13_NoTimeDownloadsOnceAsked ==
    [][(Checked /\ data.last_downloaded = 0)
       => /\ sync'.answer \in {"user", "nouser", "error"}
          /\ sync'.answer = "user"
                => /\ sync'.decision = "refresh"
                   /\ sync'.pc = "posted"
                   /\ sync'.posted = sync.posted + 1
          /\ sync'.answer # "user"
                => /\ sync'.decision = "failed"
                   /\ sync'.errors = sync.errors + 1
                   /\ sync'.posted = sync.posted]_vars

C13_Witness ==
    /\ sync.pc = "posted"
    /\ sync.decision = "refresh"
    /\ sync.answer = "user"
    /\ data.last_downloaded = 0
    /\ sync.user.last_update = 1
    /\ dl.pc = "idle"

\* C14: with a time L of the last download and a user returned with the time
\* R of last update, Redownload is posted exactly when R - L is more than the
\* wiggle room of 2 seconds; otherwise (also at exactly 2 seconds) the local
\* copy is shown and nothing is posted.
C14_DownloadIffBeyondWiggleRoom ==
    [][(/\ Checked
        /\ data.last_downloaded # 0
        /\ sync'.answer = "user"
        /\ sync'.user.last_update # 0)
       => LET L == data.last_downloaded
              R == sync'.user.last_update
          IN  /\ R - L > 2
                    => /\ sync'.decision = "refresh"
                       /\ sync'.posted = sync.posted + 1
              /\ R - L <= 2
                    => /\ sync'.decision = "uptodate"
                       /\ sync'.posted = sync.posted
                       /\ sync'.shown]_vars

C14_Witness ==
    /\ sync.decision = "uptodate"
    /\ sync.answer = "user"
    /\ data.last_downloaded = 1
    /\ sync.user.last_update = 3

\* C15: when the request for the user fails, or returns no user, the check
\* ends there: the error is reported, Redownload is not posted, no download
\* starts, and the LocalData (user, all, trash, collections, last_downloaded)
\* and the file are what they were.
C15_FailedUserRequestChangesNothing ==
    [][((Checked /\ sync'.answer \in {"nouser", "error"})
        \/ (sync.pc = "failed" /\ sync'.runs = sync.runs))
       => /\ sync'.pc = "failed"
          /\ sync'.decision = "failed"
          /\ sync'.errors = IF Checked THEN sync.errors + 1 ELSE sync.errors
          /\ sync'.posted = 0
          /\ data' = data
          /\ dl' = dl
          /\ dl.pc = "idle"
          /\ disk' = disk]_vars

C15_Witness ==
    /\ sync.pc = "failed"
    /\ sync.answer = "error"
    /\ sync.runs = 2
    /\ data.last_downloaded = 1
    /\ Len(data.all) = 1
    /\ data.user = "u1"

\* C16: when the check decides that the local copy is up to date, the local
\* copy is shown (populate_display), Redownload is not posted, and download()
\* is not called: nothing is fetched in that run of the program.
C16_UpToDateFetchesNothing ==
    [][(sync'.decision = "uptodate" /\ sync'.runs = sync.runs)
       => /\ sync'.pc = "shown"
          /\ sync'.shown
          /\ sync'.posted = 0
          /\ active' = Root
          /\ dl' = dl
          /\ dl.pc = "idle"
          /\ data' = data
          /\ disk' = disk]_vars

C16_Witness ==
    /\ sync.decision = "uptodate"
    /\ sync.pc = "shown"
    /\ sync.user.last_update = 0
    /\ data.last_downloaded = 1
    /\ Len(data.trash) = 1

\* C19: in_collection(c) gives, for All, the group of the raindrops that are
\* not in the trash itself; for Unsorted, exactly the raindrops of that group
\* whose collection is the identity of Unsorted; for Trash, the group of the
\* raindrops in the trash itself; for another identity, exactly the raindrops
\* not in the trash whose collection is that identity; each in the order of
\* the group it is taken from.
C19_InCollection ==
    \A list \in DropLists, c \in AskedCollections :
        LET all      == views[Root]
            trash    == TrashOf(Scratch, list)
            found    == in_collection(all, trash, Scratch + 1, c)
            expected == SelectSeq(all.raindrops, LAMBDA r : r.collection = c.identity)
        IN  /\ c.identity = ALL => found = all
            /\ c.identity = TRASH => found = trash /\ found.raindrops = list
            /\ c.identity \notin {ALL, TRASH}
                  => /\ found.raindrops = expected
                     /\ found.index = reindex(expected)
                     /\ found.title = c.title
                     /\ found.filters = <<>>

C19_Witness ==
    /\ views[Root].raindrops = <<D1b, D2>>
    /\ in_collection(views[Root], TrashOf(Scratch, <<D1>>), Scratch + 1,
                     [title |-> "Unsorted", identity |-> UNSORTED]).raindrops = <<D1b>>
    /\ in_collection(views[Root], TrashOf(Scratch, <<D1>>), Scratch + 1,
                     [title |-> "ten", identity |-> 10]).raindrops = <<D2>>

(***************************************************************************)
(* Properties of the enumeration of the collections.                       *)
(***************************************************************************)
\* C20 as stated: the enumeration of the collections under a parent ends for
\* every finite set of collections, also when the parent links form a cycle:
\* the calls never nest without end (to the limit of the recursion).
C20_EnumerationEnds == walk.pc # "RecursionError"

\* the collection with the identity c, in a list that holds it
CollectionOf(collections, c) ==
    collections[CHOOSE i \in 1..Len(collections) : collections[i].identity = c]

RECURSIVE DepthBelow(_, _, _, _)
\* how many parent links lead from the collection c up to P; 0 if none do
\* within `steps` links
DepthBelow(collections, c, P, steps) ==
    IF steps = 0 \/ c \notin {collections[i].identity : i \in 1..Len(collections)} THEN 0
    ELSE LET parent == CollectionOf(collections, c).parent
         IN  IF parent = P THEN 1
             ELSE LET above == DepthBelow(collections, parent, P, steps - 1)
                  IN  IF above = 0 THEN 0 ELSE above + 1

\* no collection is its own ancestor
Acyclic(collections) ==
    \A i \in 1..Len(collections) :
        DepthBelow(collections, collections[i].identity, collections[i].identity,
                   Len(collections)) = 0

\* C21: with acyclic parent links, the enumeration under P lists every
\* collection below P exactly once and nothing else, each with its depth below
\* P as indent; a collection comes after its parent, and what lies between the
\* two is below that parent (depth first, the parent before its subtree).
C21_DepthFirstPreOrder ==
    [][(walk.pc = "walking" /\ walk'.pc = "done" /\ Acyclic(walk.collections))
       => LET P     == walk.stack[1].parent
              all   == walk.collections
              out   == walk'.out
              depth(c) == DepthBelow(all, c, P, Len(all))
              below == {c \in TreeIds : depth(c) > 0}
          IN  /\ {out[k].identity : k \in 1..Len(out)} = below
              /\ Len(out) = Cardinality(below)
              /\ \A k \in 1..Len(out) :
                    /\ out[k].indent = depth(out[k].identity)
                    /\ CollectionOf(all, out[k].identity).parent # P
                         => \E j \in 1..(k - 1) :
                               /\ out[j].identity = CollectionOf(all, out[k].identity).parent
                               /\ \A m \in (j + 1)..k : out[m].indent > out[j].indent]_vars

C21_Witness ==
    /\ walk.pc = "done"
    /\ walk.out = <<[identity |-> 12, indent |-> 1], [identity |-> 11, indent |-> 2]>>
    /\ walk.collections[1].parent = NoParent

(***************************************************************************)
(* Properties of the changes of raindrops.                                 *)
(***************************************************************************)
\* C22: a change (add, edit, delete) whose request raises, or whose answer
\* does not confirm it, is reported and changes neither "All", nor the trash,
\* nor any other part of the LocalData, nor the group on display; "All" and the
\* trash are changed by a change only when the server has confirmed it.
C22_UnconfirmedChangesNothing ==
    [][(last'.op \in {"add", "edit", "delete"})
       => /\ last'.answer \in {"error", "unconfirmed"}
               => /\ views' = views
                  /\ active' = active
                  /\ data' = data
                  /\ disk' = disk
                  /\ last'.notified \in {"error", "warning"}
          /\ (views'[Root] # views[Root] \/ data' # data) => last'.answer = "ok"]_vars

C22_Witness ==
    /\ last.op = "edit"
    /\ last.answer = "unconfirmed"
    /\ last.notified = "warning"
    /\ last.drop = <<D1b>>
    /\ views[Root].raindrops = <<D2, D1>>
    /\ views[active].filters = <<Tagged("a")>>

(***************************************************************************)
(* Properties of the functions of tags.                                    *)
(***************************************************************************)
\* the raindrops of a group (given by their lists of tags) that carry a tag
Carrying(group, tag) ==
    {k \in 1..Len(group) : \E i \in 1..Len(group[k]) : TagEq(group[k][i], tag)}

\* C23: Raindrops.tags reports every tag that a raindrop of the group carries
\* exactly once, whatever its case, with the number of raindrops that carry
\* it: a raindrop that repeats a tag counts once.  It reports no other tag and
\* no count is greater than the number of raindrops.
C23_TagsCounted ==
    calc.fn = "tags"
    => /\ \A tag \in TagStrings :
            Carrying(calc.args, tag) # {}
            => \E i \in 1..Len(calc.result) :
                  /\ TagEq(calc.result[i].tag, tag)
                  /\ calc.result[i].count = Cardinality(Carrying(calc.args, tag))
                  /\ \A j \in 1..Len(calc.result) :
                        TagEq(calc.result[j].tag, tag) => j = i
       /\ \A i \in 1..Len(calc.result) :
            /\ Carrying(calc.args, calc.result[i].tag) # {}
            /\ calc.result[i].count <= Len(calc.args)

C23_Witness ==
    /\ calc.fn = "tags"
    /\ calc.args = << <<"a", "A">>, <<"b", "A">> >>
    /\ calc.result = <<[tag |-> "a", count |-> 2], [tag |-> "b", count |-> 1]>>

\* the place of a tag in the alphabet, whatever its case
Alphabetical(tag) == ord(casefold(tag))

\* C24 as stated: the tags in the order of their counts have the greater
\* counts first and, where the counts are equal, the alphabetical order,
\* whatever the case; the tags in the order of their names are in alphabetical
\* order, whatever the case.
C24_TagOrders ==
    LET tags == calc.result
    IN  /\ calc.fn = "by_count"
           => \A i, j \in 1..Len(tags) :
                 i < j => \/ tags[i].count > tags[j].count
                          \/ /\ tags[i].count = tags[j].count
                             /\ Alphabetical(tags[i].tag) <= Alphabetical(tags[j].tag)
        /\ calc.fn = "by_name"
           => \A i, j \in 1..Len(tags) :
                 i < j => Alphabetical(tags[i].tag) <= Alphabetical(tags[j].tag)

\* C25: two tags are equal exactly when their strings are equal once case
\* folded, a tag and a string are equal by the same rule whichever comes
\* first, tags that are equal have the same hash, and a set built from tags
\* that differ only in case has one member.
C25_TagEquality ==
    /\ calc.fn = "eq"
       => LET same == casefold(calc.args[1]) = casefold(calc.args[2])
          IN  /\ calc.result.tags = same
              /\ calc.result.tag_str = same
              /\ calc.result.str_tag = same
              /\ same => calc.result.hashes[1] = calc.result.hashes[2]
    /\ calc.fn = "set"
       => /\ (/\ calc.args # <<>>
              /\ \A i \in 1..Len(calc.args) : casefold(calc.args[i]) = casefold(calc.args[1]))
             => Len(calc.result) = 1
          /\ \A i, j \in 1..Len(calc.result) :
                casefold(calc.result[i]) = casefold(calc.result[j]) => i = j

C25_Witness ==
    /\ calc.fn = "set"
    /\ calc.args = <<"a", "A", "a">>
    /\ calc.result = <<"a">>

\* the places of a string where an entry begins: a character that is neither
\* the separator nor a blank, with nothing but blanks between it and the
\* separator before it (or the start of the string)
EntryStarts(s) ==
    {i \in 1..Len(s) :
        /\ s[i] \notin {TAG_STRING_SEPARATOR, " "}
        /\ \E k \in 0..(i - 1) :
              /\ k = 0 \/ s[k] = TAG_STRING_SEPARATOR
              /\ \A j \in (k + 1)..(i - 1) : s[j] = " "}

\* a tag as it is read from a string: not empty, no separator in it, no blank
\* at either end
Trimmed(tag) ==
    /\ tag # <<>>
    /\ tag[1] # " " /\ tag[Len(tag)] # " "
    /\ \A i \in 1..Len(tag) : tag[i] # TAG_STRING_SEPARATOR

\* the first place of a tag, whatever its case, in a list of tags
FirstOf(tag, tags) ==
    CHOOSE i \in 1..Len(tags) :
        /\ str_casefold(tags[i]) = str_casefold(tag)
        /\ \A j \in 1..(i - 1) : str_casefold(tags[j]) # str_casefold(tag)

\* C26: string_to_raw_tags returns one trimmed tag for every entry of the
\* string that is not blank, duplicates included; string_to_tags returns of
\* these the first of every tag, whatever the case, in the order of the first
\* occurrences, so no two of its tags are equal ignoring case; tags_to_string
\* of the raw tags is a string that reads back as the same tags.
C26_StringsOfTags ==
    calc.fn = "string_to_tags"
    => LET raw  == calc.result.raw
           tags == calc.result.tags
       IN  /\ Len(raw) = Cardinality(EntryStarts(calc.args))
           /\ \A i \in 1..Len(raw) : Trimmed(raw[i])
           /\ \A i, j \in 1..Len(tags) :
                 str_casefold(tags[i]) = str_casefold(tags[j]) => i = j
           /\ \A i \in 1..Len(raw) :
                 \E j \in 1..Len(tags) : tags[j] = raw[FirstOf(raw[i], raw)]
           /\ \A i \in 1..Len(tags) :
                 /\ \E k \in 1..Len(raw) : raw[k] = tags[i]
                 /\ tags[i] = raw[FirstOf(tags[i], raw)]
                 /\ \A j \in 1..Len(tags) :
                       i < j => FirstOf(tags[i], raw) < FirstOf(tags[j], raw)
           /\ string_to_raw_tags(calc.result.string) = tags

C26_Witness ==
    /\ calc.fn = "string_to_tags"
    /\ calc.args = <<"b", TAG_STRING_SEPARATOR, "A", TAG_STRING_SEPARATOR, "a">>
    /\ calc.result.raw = << <<"b">>, <<"A">>, <<"a">> >>
    /\ calc.result.tags = << <<"b">>, <<"A">> >>

(***************************************************************************)
(* Properties of the requests made at the start.                           *)
(***************************************************************************)
\* the requests of a start: the user (API.user), the raindrops that are not
\* in the trash and those that are (API.raindrops), the collections
\* (API.collections: the roots, then the children)
Fetches == {"user", "bookmarks", "trash", "collections"}

\* the request has been sent and has not resolved
InFlight(fetch) ==
    CASE fetch = "user" -> sync.pc = "user"
      [] fetch = "bookmarks" -> dl.pc = "all"
      [] fetch = "trash" -> dl.pc = "trash"
      [] fetch = "collections" -> dl.pc \in {"root", "children"}

\* the request has resolved with an answer since the start
Resolved(fetch) ==
    CASE fetch = "user" -> sync.answer = "user"
      [] fetch = "bookmarks" -> dl.pc \in {"trash", "root", "children", "done"}
      [] fetch = "trash" -> dl.pc \in {"root", "children", "done"}
      [] fetch = "collections" -> dl.pc = "done"

\* the requests are made one after the other in the given order
StrictSequence(order) ==
    /\ \A i, j \in 1..Len(order) :
          (i < j /\ (InFlight(order[j]) \/ Resolved(order[j]))) => Resolved(order[i])
    /\ Cardinality({fetch \in Fetches : InFlight(fetch)}) <= 1

\* C27 as stated: the requests are made in the order user, collections,
\* bookmarks, trash, each after the one before it has resolved, and never two
\* at a time.
C27_FetchOrderAsStated == StrictSequence(<<"user", "collections", "bookmarks", "trash">>)

\* C27: the requests are made in the order user, bookmarks, trash,
\* collections, each after the one before it has resolved, and never two at a
\* time.
C27_FetchOrder == StrictSequence(<<"user", "bookmarks", "trash", "collections">>)

C27_Witness ==
    /\ InFlight("collections")
    /\ dl.pc = "children"
    /\ data.all # <<>>
    /\ sync.answer = "user"

\* C29: the time of the last download changes only at the step that ends a
\* download, when the collections, the last of the three things fetched, are
\* stored, the raindrops and the trash having been stored before; while a
\* download is running, and when it has failed, the time is the one from
\* before the download (none if there was none).
C29_MarkedOnCompletion ==
    [][/\ data'.last_downloaded # data.last_downloaded
          => /\ dl.pc = "children" /\ dl'.pc = "done"
             /\ data'.all = data.all /\ data'.trash = data.trash
             /\ data'.last_downloaded = now
       /\ dl'.pc \in {"all", "trash", "root", "children", "failed"}
          => data'.last_downloaded = pre'.last_downloaded]_vars

C29_Witness ==
    /\ dl.pc = "failed"
    /\ dl.calls = 2
    /\ pre.last_downloaded = 1
    /\ data.last_downloaded = 1
    /\ data.all # pre.all

(***************************************************************************)
(* Properties of the start with the commands of the user.                  *)
(***************************************************************************)
\* what changes the LocalData over a stretch of time: load() of a file that
\* exists, in its thread, and download(), from its call to its return
Mutations == {"load", "download"}

MutationInFlight(mutation) ==
    CASE mutation = "load" -> sync.pc = "loading"
      [] mutation = "download" -> dl.pc \in {"all", "trash", "root", "children"}

\* C28 as stated: at no moment of a start with commands of the user is more
\* than one change of the LocalData in flight.
C28_OneMutationInFlight ==
    Cardinality({mutation \in Mutations : MutationInFlight(mutation)}) <= 1

\* C30: when the requests resolve, a check that has begun (API.user() is
\* awaited) ends with the display populated or with the error reported, and a
\* download that has begun ends; a download begins only when the check has
\* posted Redownload or the user has given the command.
C30_CheckEnds ==
    /\ (sync.pc = "user") ~> (sync.pc \in {"shown", "failed"})
    /\ (dl.pc \in {"all", "trash", "root", "children"}) ~> (dl.pc = "idle")
    /\ [][(dl.pc = "idle" /\ dl'.pc = "all")
          => (sync.commanded \/ (sync.pc = "posted" /\ sync.decision = "refresh"))]_vars

C30_Witness ==
    /\ sync.pc = "shown"
    /\ sync.decision = "refresh"
    /\ sync.posted = 1
    /\ dl.calls = 2
    /\ dl.pc = "idle"
    /\ sync.runs = 1

====
